---- MODULE Spec2Model ----
(***************************************************************************)
(* Model of src/device/ceilinglight.ts (class CeilingLight): the canonical *)
(* LightBulb state, the cached accessory.context, the host characteristic  *)
(* values, the debounced doCeilingLightUpdate pipeline, the refresh        *)
(* interval, and the asynchronous refresh and push operations.             *)
(*                                                                         *)
(* One step of the model is what the JavaScript event loop runs between    *)
(* two awaits on a transport call: a handler runs from its entry, or from  *)
(* the completion of the transport call it awaited, up to the next         *)
(* transport call it awaits or to its end.                                 *)
(***************************************************************************)
EXTENDS Integers, Sequences, FiniteSets, TLC

\* ---------------------------------------------------------------- bounds
MaxPush == 2        \* pushChanges runs (with their BLE chains) alive at once
MaxRefresh == 1     \* refreshStatus runs alive at once
MaxRetry == 2       \* maxRetryBLE(): attempts retryBLE makes
MaxInputs == 3      \* user writes, events and interval ticks in one behaviour
MaxFaults == 1      \* transport operations that fail in one behaviour

\* ------------------------------------------------------- program constants
MinMired == 140
MaxMired == 500
MinKelvin == 2000
MaxKelvin == 9000
Million == 1000000

\* ------------------------------------------------------- JavaScript values
\* numbers are integers; the three non-numbers a numeric field can hold are
\* coded below zero.  The On field holds "true", "false", "undefined" and,
\* on the host only, "error".
Undef == 0 - 1
NaN == 0 - 2
Err == 0 - 3

Min2(a, b) == IF a < b THEN a ELSE b
Max2(a, b) == IF a > b THEN a ELSE b

\* x !== y on numeric fields: NaN differs from everything, itself included
StrictNe(x, y) == x # y \/ x = NaN

\* truthiness of an On value
Truthy(v) == v = "true" \/ v = "error"

\* Math.round(a / b) for a >= 0, b > 0
RoundDiv(a, b) == (2 * a + b) \div (2 * b)

Chars == {"On", "Brightness", "ColorTemperature", "Hue", "Saturation"}

\* --------------------------------------------------------- input domains
WriteOn == {"true", "false"}
WriteBrightness == {30}
WriteColorTemperature == {300}
WriteHue == {120}
WriteSaturation == {100}

StatusPower == {"true", "false"}
StatusBrightness == {50}
StatusKelvin == {2700}

ConnectionTypes == {"BLE", "OpenAPI", "BLE/OpenAPI"}
\* a field that no branch reads under the other fields is held at one value:
\* the offline flag is read only when no transport is selectable, the token
\* only when the remote transport can be selected at all
Configs ==
  {c \in [connectionType : ConnectionTypes, enableCloudService : BOOLEAN,
          token : BOOLEAN, offline : BOOLEAN] :
     /\ c.offline =>
           c.connectionType = "OpenAPI" /\ c.enableCloudService /\ ~c.token
     /\ ~c.token =>
           c.connectionType # "BLE" /\ c.enableCloudService
     /\ ~c.enableCloudService => c.connectionType # "BLE"}

VARIABLES
  cfg,          \* device and platform configuration, fixed at construction
  LightBulb,    \* this.LightBulb: the canonical state
  context,      \* this.accessory.context: the cached-published state
  hk,           \* the characteristic values the host holds
  ceilingLightUpdateInProgress,
  debounceArmed,  \* debounceTime holds a value and its timer runs
  taking,       \* skipWhile of the refresh interval has let a tick through
  followUps,    \* 15 s follow-up intervals armed and still skipping
  push,         \* pushChanges runs and their detached BLE chains
  refresh,      \* refreshStatus runs
  nInputs,      \* user writes, events and interval ticks so far
  nFaults,      \* transport calls that have failed so far
  lastWrite,    \* the power of the last OnSet no ingestion has followed
  cv            \* a colour temperature on its way to the device and back

vars ==
  <<cfg, LightBulb, context, hk, ceilingLightUpdateInProgress, debounceArmed,
    taking, followUps, push, refresh, nInputs, nFaults, lastWrite, cv>>

\* this.BLE / this.OpenAPI of deviceBase
BLE == cfg.connectionType \in {"BLE", "BLE/OpenAPI"}
OpenAPI == cfg.connectionType \in {"OpenAPI", "BLE/OpenAPI"}

\* ------------------------------------------------------------ conversions
\* Math.max(Math.min(Math.round(1000000 / kelvin), 500), 140)
KelvinToMired(kelvin) ==
  IF kelvin = Undef \/ kelvin = NaN THEN NaN
  ELSE IF kelvin = 0 THEN MaxMired
  ELSE Max2(Min2(RoundDiv(Million, kelvin), MaxMired), MinMired)

\* const kelvin = Math.round(1000000 * Number(this.LightBulb.ColorTemperature))
PushKelvin(mired) ==
  IF mired = Undef \/ mired = NaN THEN NaN ELSE Million * mired

\* Math.round(1000000 / Number(value) / 100) * 100, clamped to [2000, 9000]
SetKelvin(value) ==
  Min2(Max2(RoundDiv(Million, 100 * value) * 100, MinKelvin), MaxKelvin)

\* m2hs(value) of utils.ts: the hue and saturation that stand for a mired value
m2hs(value) == [h |-> 1000 + value, s |-> 2000 + value]

\* ------------------------------------------------------- host publication
\* a publication in progress: the cache and the host values
Pub(ctx, h) == [context |-> ctx, hk |-> h]

\* deviceBase.updateCharacteristic: a characteristic whose canonical value
\* differs from the cached one is sent to the host and cached
updateCharacteristic(lb, st, c) ==
  IF lb[c] # st.context[c]
  THEN [context |-> [st.context EXCEPT ![c] = lb[c]],
        hk |-> [st.hk EXCEPT ![c] = lb[c]]]
  ELSE st

\* an updateHomeKitCharacteristics that leaves out its last call
updateHomeKitCharacteristicsWithoutSaturation(lb, st) ==
  LET s1 == updateCharacteristic(lb, st, "On")
      s2 == updateCharacteristic(lb, s1, "Brightness")
      s3 == updateCharacteristic(lb, s2, "ColorTemperature")
  IN  updateCharacteristic(lb, s3, "Hue")

updateHomeKitCharacteristics(lb, st) ==
  LET s1 == updateCharacteristic(lb, st, "On")
      s2 == updateCharacteristic(lb, s1, "Brightness")
      s3 == updateCharacteristic(lb, s2, "ColorTemperature")
      s4 == updateCharacteristic(lb, s3, "Hue")
  IN  updateCharacteristic(lb, s4, "Saturation")

\* apiError(e): every characteristic of the host is set to the error
apiError(st) ==
  [st EXCEPT !.hk = [On |-> "error", Brightness |-> Err, ColorTemperature |-> Err,
                     Hue |-> Err, Saturation |-> Err]]

\* an offlineOff that leaves the host as it is
offlineOffKeepsPower(h) == h

\* offlineOff()
offlineOff(h) == IF cfg.offline THEN [h EXCEPT !.On = "false"] ELSE h

\* ------------------------------------------------------- status ingestion
\* a BLEparseStatus that takes the payload for the end of the colour mode
BLEparseStatusResetsColour(lb, serviceData) ==
  [lb EXCEPT !.On = serviceData.state,
             !.ColorTemperature = KelvinToMired(serviceData.color_temperature),
             !.Hue = 0, !.Saturation = 0]

BLEparseStatus(lb, serviceData) ==
  [lb EXCEPT !.On = serviceData.state,
             !.ColorTemperature = KelvinToMired(serviceData.color_temperature)]

openAPIparseStatus(lb, deviceStatus) ==
  [lb EXCEPT !.On = deviceStatus.power,
             !.Brightness = deviceStatus.brightness,
             !.ColorTemperature = KelvinToMired(deviceStatus.colorTemperature)]

parseStatusWebhook(lb, webhookContext) ==
  [lb EXCEPT !.On = IF webhookContext.powerState = "ON" THEN "true" ELSE "false",
             !.Brightness = webhookContext.brightness,
             !.ColorTemperature = KelvinToMired(webhookContext.colorTemperature)]


\* hs2rgb(hue, saturation) of utils.ts, value at its maximum, as r:g:b packed
\* into one number rrrgggbbb
hs2rgb(h, s) ==
  LET f == h % 60
      p == RoundDiv(255 * (100 - s), 100)
      q == RoundDiv(255 * (6000 - s * f), 6000)
      t == RoundDiv(255 * (6000 - s * (60 - f)), 6000)
      k == (h \div 60) % 6
      rgb == CASE k = 0 -> <<255, t, p>>
               [] k = 1 -> <<q, 255, p>>
               [] k = 2 -> <<p, 255, t>>
               [] k = 3 -> <<p, q, 255>>
               [] k = 4 -> <<t, p, 255>>
               [] OTHER -> <<255, p, q>>
  IN  rgb[1] * Million + rgb[2] * 1000 + rgb[3]

\* -------------------------------------------------------- transport calls
\* a call on a transport: "ble" is the local one, "api" the remote one
Call(via, cmd, arg) == [via |-> via, cmd |-> cmd, arg |-> arg]
NoCall == Call("none", "none", 0)

\* turnOn or turnOff, by the canonical power at the moment of the call
PowerCall(via, lb) == Call(via, IF Truthy(lb.On) THEN "turnOn" ELSE "turnOff", 0)

\* a pushChanges run or the BLE chain it left behind: where it awaits, the
\* attempts retryBLE has made, and the call it awaits
Run(pc, tries, call) == [pc |-> pc, tries |-> tries, call |-> call]
Idle == Run("idle", 0, NoCall)

MainPcs == {"connect", "fb_main", "power", "brightness", "ct", "color"}
ChainPcs == {"discover", "cmd", "fb_chain"}

FreePush(i) == push[i].pc = "idle" /\ \A j \in 1..(i - 1) : push[j].pc # "idle"
FreeRefresh(i) == refresh[i] = "idle" /\ \A j \in 1..(i - 1) : refresh[j] # "idle"

\* --------------------------------------------------- the push functions
\* the first of pushBrightnessChanges, pushColorTemperatureChanges and
\* pushHueSaturationChanges, from number `from` on, that finds a change
NextStage(from, lb, ctx) ==
  IF from <= 1 /\ StrictNe(lb.Brightness, ctx.Brightness) THEN "brightness"
  ELSE IF from <= 2 /\ StrictNe(lb.ColorTemperature, ctx.ColorTemperature) THEN "ct"
  ELSE IF from <= 3 /\ (StrictNe(lb.Hue, ctx.Hue) \/ StrictNe(lb.Saturation, ctx.Saturation))
       THEN "color"
  ELSE "done"

StageNumber(pc) == CASE pc = "brightness" -> 1 [] pc = "ct" -> 2 [] OTHER -> 3

\* the bodyChange a push function sends
StageCall(stage, lb) ==
  CASE stage = "brightness" -> Call("api", "setBrightness", lb.Brightness)
    [] stage = "ct" -> Call("api", "setColorTemperature", PushKelvin(lb.ColorTemperature))
    [] OTHER -> Call("api", "setColor", hs2rgb(lb.Hue, lb.Saturation))

\* what a push function does once pushChangeRequest has returned: publish on a
\* success status code, log on another, apiError when it threw
AfterRequest(outcome, lb, st) ==
  CASE outcome = "ok" -> updateHomeKitCharacteristics(lb, st)
    [] outcome = "bad" -> st
    [] OTHER -> apiError(st)

Outcomes == {"ok", "bad", "throw"}

\* slot i goes on to await `call` at pc, or ends (pc = "idle")
Await(i, pc, tries, st, call) ==
  /\ context' = st.context
  /\ hk' = st.hk
  /\ push' = [push EXCEPT ![i] = Run(pc, tries, call)]

AwaitMain(i, pc, st, call) ==
  /\ Await(i, pc, 0, st, call)
  /\ UNCHANGED <<followUps, ceilingLightUpdateInProgress>>

\* a subscriber that does not clear the flag when pushChanges has returned
EndMainKeepsFlag(i, pc, st, call) ==
  /\ Await(i, pc, 0, st, call)
  /\ followUps' = followUps + 1
  /\ ceilingLightUpdateInProgress' = ceilingLightUpdateInProgress

\* a pushChanges that returns without the follow-up interval
EndMainWithoutFollowUp(i, pc, st, call) ==
  /\ Await(i, pc, 0, st, call)
  /\ followUps' = followUps
  /\ ceilingLightUpdateInProgress' = FALSE

\* pushChanges returns: the 15 s follow-up interval is armed (lines 407-413)
\* and the subscriber clears the flag (line 193); pc is what is left of the
\* run, its detached BLE chain or nothing
EndMain(i, pc, st, call) ==
  /\ Await(i, pc, 0, st, call)
  /\ followUps' = followUps + 1
  /\ ceilingLightUpdateInProgress' = FALSE

\* pushChanges after openAPIpushChanges has returned (lines 389-402)
Stage(i, stage, st) ==
  IF stage = "done" THEN EndMain(i, "idle", st, NoCall)
  ELSE AwaitMain(i, stage,
         IF stage = "ct"
         THEN [st EXCEPT !.context.kelvin = PushKelvin(LightBulb.ColorTemperature)]
         ELSE st,
         StageCall(stage, LightBulb))

\* a pushChanges that sends the other commands whatever the power
AfterPowerWhateverPower(i, st) == Stage(i, NextStage(1, LightBulb, st.context), st)

AfterPower(i, st) ==
  IF Truthy(LightBulb.On) THEN Stage(i, NextStage(1, LightBulb, st.context), st)
  ELSE EndMain(i, "idle", st, NoCall)

\* the conditions of BLEPushConnection and BLERefreshConnection: the remote
\* transport takes over
BLEPushConnection == cfg.token /\ cfg.connectionType = "BLE/OpenAPI"
BLERefreshConnection == cfg.token /\ cfg.connectionType = "BLE/OpenAPI"

\* the transport operation that returns has failed, or has not; the attempts
\* of one retryBLE are one operation
Fault(failed) ==
  IF failed THEN nFaults < MaxFaults /\ nFaults' = nFaults + 1
  ELSE nFaults' = nFaults

\* the subscriber of doCeilingLightUpdate: the debounce timer fires and
\* pushChanges runs up to its first transport call
DebounceFire ==
  /\ debounceArmed
  /\ debounceArmed' = FALSE
  /\ \E i \in 1..MaxPush :
       /\ FreePush(i)
       /\ IF ~cfg.enableCloudService /\ OpenAPI
          THEN EndMain(i, "idle", Pub(context, hk), NoCall)
          ELSE IF BLE
          THEN IF LightBulb.On # context.On
               THEN AwaitMain(i, "connect", Pub(context, hk), Call("ble", "connect", 0))
               ELSE EndMain(i, "idle", Pub(context, hk), NoCall)
          ELSE IF OpenAPI /\ cfg.token
          THEN IF LightBulb.On # context.On
               THEN AwaitMain(i, "power", Pub(context, hk), PowerCall("api", LightBulb))
               ELSE AfterPower(i, Pub(context, hk))
          ELSE EndMain(i, "idle", Pub(context, offlineOff(hk)), NoCall)
  /\ UNCHANGED <<cfg, LightBulb, taking, refresh, nInputs, lastWrite, nFaults, cv>>

\* pushChangeRequest of openAPIpushChanges or of a push function returns
PushResponse(i, outcome) ==
  /\ Fault(outcome # "ok")
  /\ push[i].pc \in {"power", "brightness", "ct", "color"}
  /\ LET st == AfterRequest(outcome, LightBulb, Pub(context, hk))
     IN  IF push[i].pc = "power"
         THEN AfterPower(i, st)
         ELSE Stage(i, NextStage(StageNumber(push[i].pc) + 1, LightBulb, st.context), st)
  /\ UNCHANGED <<cfg, LightBulb, debounceArmed, taking, refresh, nInputs, lastWrite, cv>>

\* BLEpushChanges, lines 420-457: platform.connectBLE has returned
ConnectBLEDone(i, ok) ==
  /\ Fault(~ok)
  /\ push[i].pc = "connect"
  /\ IF ok
     THEN EndMain(i, "discover", Pub(context, hk), Call("ble", "discover", 0))
     ELSE IF BLEPushConnection /\ LightBulb.On # context.On
     THEN AwaitMain(i, "fb_main", Pub(context, hk), PowerCall("api", LightBulb))
     ELSE EndMain(i, "idle", Pub(context, hk), NoCall)
  /\ UNCHANGED <<cfg, LightBulb, debounceArmed, taking, refresh, nInputs, lastWrite, cv>>

\* the .catch of the discover chain, lines 446-450
BLEPushCatch(i) ==
  IF BLEPushConnection /\ LightBulb.On # context.On
  THEN Await(i, "fb_chain", 0, apiError(Pub(context, hk)), PowerCall("api", LightBulb))
  ELSE Await(i, "idle", 0, apiError(Pub(context, hk)), NoCall)

\* discover has resolved and retryBLE makes its first attempt, or has rejected
DiscoverDone(i, ok) ==
  /\ Fault(~ok)
  /\ push[i].pc = "discover"
  /\ IF ok
     THEN Await(i, "cmd", 1, Pub(context, hk), PowerCall("ble", LightBulb))
     ELSE BLEPushCatch(i)
  /\ UNCHANGED <<cfg, LightBulb, ceilingLightUpdateInProgress, debounceArmed, taking,
                 followUps, refresh, nInputs, lastWrite, cv>>

\* the .then of the discover chain, lines 442-445
BLEPushThen(lb) == [lb EXCEPT !.On = "false"]

\* turnOn / turnOff has returned: success, another attempt, or the last failure
CommandDone(i, ok) ==
  /\ Fault(~ok /\ push[i].tries = 1)
  /\ push[i].pc = "cmd"
  /\ IF ok
     THEN /\ Await(i, "idle", 0, Pub(context, hk), NoCall)
          /\ LightBulb' = BLEPushThen(LightBulb)
     ELSE /\ IF push[i].tries < MaxRetry
             THEN Await(i, "cmd", push[i].tries + 1, Pub(context, hk),
                        PowerCall("ble", LightBulb))
             ELSE BLEPushCatch(i)
          /\ LightBulb' = LightBulb
  /\ UNCHANGED <<cfg, ceilingLightUpdateInProgress, debounceArmed, taking,
                 followUps, refresh, nInputs, lastWrite, cv>>

\* pushChangeRequest of the openAPIpushChanges that BLEPushConnection ran returns
FallbackResponse(i, outcome) ==
  /\ Fault(outcome # "ok")
  /\ push[i].pc \in {"fb_main", "fb_chain"}
  /\ LET st == AfterRequest(outcome, LightBulb, Pub(context, hk))
     IN  IF push[i].pc = "fb_main"
         THEN EndMain(i, "idle", st, NoCall)
         ELSE /\ Await(i, "idle", 0, st, NoCall)
              /\ UNCHANGED <<followUps, ceilingLightUpdateInProgress>>
  /\ UNCHANGED <<cfg, LightBulb, debounceArmed, taking, refresh, nInputs, lastWrite, cv>>

\* ------------------------------------------------------------ the setters
\* one more input from the outside: a user write, an event or a tick
Input == nInputs < MaxInputs /\ nInputs' = nInputs + 1

\* this.doCeilingLightUpdate.next(): the tap sets the flag and debounceTime
\* restarts its timer
Scheduled == ceilingLightUpdateInProgress' = TRUE /\ debounceArmed' = TRUE

OnSet(value) ==
  /\ Input
  /\ LightBulb' = [LightBulb EXCEPT !.On = value]
  /\ lastWrite' = value
  /\ Scheduled
  /\ UNCHANGED <<cfg, context, hk, taking, followUps, push, refresh, nFaults, cv>>

BrightnessSet(value) ==
  /\ Input
  /\ LightBulb' = [LightBulb EXCEPT !.Brightness = value]
  /\ lastWrite' = lastWrite
  /\ Scheduled
  /\ UNCHANGED <<cfg, context, hk, taking, followUps, push, refresh, nFaults, cv>>

\* the early return of ColorTemperatureSet, line 635, is not taken
ColorTemperatureAccepted(value) ==
  ~(~Truthy(context.On) \/ context.kelvin = SetKelvin(value))

ColorTemperatureSet(value) ==
  /\ Input
  /\ IF ColorTemperatureAccepted(value)
     THEN /\ hk' = [hk EXCEPT !.Hue = m2hs(value).h, !.Saturation = m2hs(value).s]
          /\ LightBulb' = [LightBulb EXCEPT !.ColorTemperature = value]
          /\ lastWrite' = lastWrite
          /\ Scheduled
     ELSE UNCHANGED <<hk, LightBulb, lastWrite, ceilingLightUpdateInProgress,
                      debounceArmed>>
  /\ UNCHANGED <<cfg, context, taking, followUps, push, refresh, nFaults, cv>>

HueSet(value) ==
  /\ Input
  /\ hk' = [hk EXCEPT !.ColorTemperature = MinMired]
  /\ LightBulb' = [LightBulb EXCEPT !.Hue = value]
  /\ lastWrite' = lastWrite
  /\ Scheduled
  /\ UNCHANGED <<cfg, context, taking, followUps, push, refresh, nFaults, cv>>

SaturationSet(value) ==
  /\ Input
  /\ hk' = [hk EXCEPT !.ColorTemperature = MinMired]
  /\ LightBulb' = [LightBulb EXCEPT !.Saturation = value]
  /\ lastWrite' = lastWrite
  /\ Scheduled
  /\ UNCHANGED <<cfg, context, taking, followUps, push, refresh, nFaults, cv>>

\* ------------------------------------------------------------ the refresh
\* a refreshStatus that does not look at enableCloudService
RefreshEntryWhateverCloudService ==
  IF BLE THEN "connect"
  ELSE IF OpenAPI /\ cfg.token THEN "api"
  ELSE "offline"

\* where refreshStatus first awaits a transport call, lines 271-282
RefreshEntry ==
  IF ~cfg.enableCloudService /\ OpenAPI THEN "idle"
  ELSE IF BLE THEN "connect"
  ELSE IF OpenAPI /\ cfg.token THEN "api"
  ELSE "offline"

refreshStatus(j) ==
  /\ refresh' = [refresh EXCEPT ![j] = IF RefreshEntry = "offline" THEN "idle"
                                        ELSE RefreshEntry]
  /\ hk' = IF RefreshEntry = "offline" THEN offlineOff(hk) ELSE hk

\* skipWhile of the refresh interval, line 172: it drops ticks until its
\* predicate is false once, and from then on passes every tick unlooked at
TickPasses == taking \/ ~ceilingLightUpdateInProgress

\* a tick of interval(deviceRefreshRate), lines 171-175
Tick ==
  /\ Input
  /\ IF TickPasses
     THEN /\ taking' = TRUE
          /\ \E j \in 1..MaxRefresh : FreeRefresh(j) /\ refreshStatus(j)
     ELSE UNCHANGED <<taking, refresh, hk>>
  /\ UNCHANGED <<cfg, LightBulb, context, ceilingLightUpdateInProgress, debounceArmed,
                 followUps, push, lastWrite, nFaults, cv>>

\* the tick of an interval(15000) behind skipWhile and take(1), lines 408-413,
\* that finds the flag clear
FollowUpTick ==
  /\ followUps > 0
  /\ ~ceilingLightUpdateInProgress
  /\ followUps' = followUps - 1
  /\ \E j \in 1..MaxRefresh : FreeRefresh(j) /\ refreshStatus(j)
  /\ UNCHANGED <<cfg, LightBulb, context, ceilingLightUpdateInProgress, debounceArmed,
                 taking, push, nInputs, lastWrite, nFaults, cv>>

\* an ingestion: the parsed state is published
Ingest(lb) ==
  LET st == updateHomeKitCharacteristics(lb, Pub(context, hk))
  IN  /\ LightBulb' = lb
      /\ context' = st.context
      /\ hk' = st.hk
      /\ lastWrite' = "undefined"

\* BLERefreshStatus, lines 286-289: switchbotBLE() has returned
SwitchbotBLEDone(j, ok) ==
  /\ Fault(~ok)
  /\ refresh[j] = "connect"
  /\ refresh' = [refresh EXCEPT ![j] = IF ok THEN "scan"
                                        ELSE IF BLERefreshConnection THEN "api"
                                        ELSE "idle"]
  /\ UNCHANGED <<cfg, LightBulb, context, hk, ceilingLightUpdateInProgress,
                 debounceArmed, taking, followUps, push, nInputs, lastWrite, cv>>

\* SwitchBotBLEModel and SwitchBotBLEModelName of node-switchbot
CeilingLight == "q"
CeilingLightPro == "r"
CeilingLightName == "WoCeiling"
CeilingLightProName == "WoCeilingPro"

\* the condition of line 294: each side an || of a comparison and a string
ServiceDataAccepted(serviceData) ==
  /\ (serviceData.model = CeilingLight \/ CeilingLightPro # "")
  /\ (serviceData.modelName = CeilingLightName \/ CeilingLightProName # "")

\* advertisements of the ceiling light, and what the scan returns when it saw
\* none of them
Advertised ==
  [model : {CeilingLight}, modelName : {CeilingLightName},
   state : StatusPower, color_temperature : StatusKelvin]
NotSeen ==
  [model |-> "", modelName |-> "", state |-> "undefined", color_temperature |-> Undef]

\* BLERefreshStatus, lines 290-302: monitorAdvertisementPackets has returned
ScanDone(j, serviceData) ==
  /\ Fault(serviceData.model = "")
  /\ refresh[j] = "scan"
  /\ IF ServiceDataAccepted(serviceData)
     THEN /\ Ingest(BLEparseStatus(LightBulb, serviceData))
          /\ refresh' = [refresh EXCEPT ![j] = "idle"]
     ELSE /\ refresh' = [refresh EXCEPT ![j] = IF BLERefreshConnection THEN "api"
                                                ELSE "idle"]
          /\ UNCHANGED <<LightBulb, context, hk, lastWrite>>
  /\ UNCHANGED <<cfg, ceilingLightUpdateInProgress, debounceArmed, taking, followUps,
                 push, nInputs, cv>>

DeviceStatus ==
  [power : StatusPower, brightness : StatusBrightness, colorTemperature : StatusKelvin]

\* an openAPIRefreshStatus that parses the body whatever the status code
StatusResponseAnyStatusCode(j, outcome, deviceStatus) ==
  /\ Fault(outcome # "ok")
  /\ refresh[j] = "api"
  /\ refresh' = [refresh EXCEPT ![j] = "idle"]
  /\ IF outcome = "throw"
     THEN /\ hk' = apiError(Pub(context, hk)).hk
          /\ UNCHANGED <<LightBulb, context, lastWrite>>
     ELSE Ingest(openAPIparseStatus(LightBulb, deviceStatus))
  /\ UNCHANGED <<cfg, ceilingLightUpdateInProgress, debounceArmed, taking, followUps,
                 push, nInputs, cv>>

\* an openAPIRefreshStatus that asks again when the request has failed
StatusResponseRetries(j, outcome, deviceStatus) ==
  /\ Fault(outcome # "ok")
  /\ refresh[j] = "api"
  /\ refresh' = [refresh EXCEPT ![j] = IF outcome = "ok" THEN "idle" ELSE "api"]
  /\ CASE outcome = "ok" -> Ingest(openAPIparseStatus(LightBulb, deviceStatus))
       [] outcome = "bad" -> UNCHANGED <<LightBulb, context, hk, lastWrite>>
       [] OTHER -> /\ hk' = apiError(Pub(context, hk)).hk
                   /\ UNCHANGED <<LightBulb, context, lastWrite>>
  /\ UNCHANGED <<cfg, ceilingLightUpdateInProgress, debounceArmed, taking, followUps,
                 push, nInputs, cv>>

\* openAPIRefreshStatus, lines 335-350: deviceRefreshStatus has returned
StatusResponse(j, outcome, deviceStatus) ==
  /\ Fault(outcome # "ok")
  /\ refresh[j] = "api"
  /\ refresh' = [refresh EXCEPT ![j] = "idle"]
  /\ CASE outcome = "ok" -> Ingest(openAPIparseStatus(LightBulb, deviceStatus))
       [] outcome = "bad" -> UNCHANGED <<LightBulb, context, hk, lastWrite>>
       [] OTHER -> /\ hk' = apiError(Pub(context, hk)).hk
                   /\ UNCHANGED <<LightBulb, context, lastWrite>>
  /\ UNCHANGED <<cfg, ceilingLightUpdateInProgress, debounceArmed, taking, followUps,
                 push, nInputs, cv>>

WebhookContext ==
  [powerState : {"ON", "OFF"}, brightness : StatusBrightness,
   colorTemperature : StatusKelvin]

\* the webhook event handler of registerWebhook, lines 356-365
Webhook(webhookContext) ==
  /\ Input
  /\ Ingest(parseStatusWebhook(LightBulb, webhookContext))
  /\ UNCHANGED <<cfg, ceilingLightUpdateInProgress, debounceArmed, taking, followUps,
                 push, refresh, nFaults, cv>>

\* the BLE event handler of registerPlatformBLE, lines 314-323
PlatformBLE(serviceData) ==
  /\ Input
  /\ Ingest(BLEparseStatus(LightBulb, serviceData))
  /\ UNCHANGED <<cfg, ceilingLightUpdateInProgress, debounceArmed, taking, followUps,
                 push, refresh, nFaults, cv>>

\* ------------------------------------------------------------ construction
\* accessory.context of an accessory the host has no cached state of
Fresh ==
  [On |-> "undefined", Brightness |-> Undef, ColorTemperature |-> Undef,
   Hue |-> Undef, Saturation |-> Undef, kelvin |-> Undef]

Or(x, d) == IF x = Undef THEN d ELSE x

\* the LightBulb of the constructor, lines 74-82
InitialLightBulb(ctx) ==
  [On |-> IF ctx.On = "undefined" THEN "false" ELSE ctx.On,
   Hue |-> Or(ctx.Hue, 0), Saturation |-> Or(ctx.Saturation, 0),
   Brightness |-> Or(ctx.Brightness, 0),
   ColorTemperature |-> Or(ctx.ColorTemperature, MinMired)]

\* a colour temperature on its way to the device and back: the mired value m,
\* the Kelvin value sent for it, and the mired value read back from a status
Conversion(pc, m, kelvin, back) == [pc |-> pc, m |-> m, kelvin |-> kelvin, back |-> back]
NoConversion == Conversion("none", 0, 0, 0)

\* the accessory as the constructor leaves it: its refreshStatus() of line 149
\* has run up to its first transport call
Constructed ==
  /\ cfg \in Configs
  /\ context = Fresh
  /\ LightBulb = InitialLightBulb(context)
  /\ hk = IF RefreshEntry = "offline" THEN offlineOff(LightBulb) ELSE LightBulb
  /\ ceilingLightUpdateInProgress = FALSE
  /\ debounceArmed = FALSE
  /\ taking = FALSE
  /\ followUps = 0
  /\ push = [i \in 1..MaxPush |-> Idle]
  /\ refresh = [j \in 1..MaxRefresh |->
                  IF j = 1 /\ RefreshEntry # "offline" THEN RefreshEntry ELSE "idle"]
  /\ nInputs = 0
  /\ nFaults = 0
  /\ lastWrite = "undefined"

Init == Constructed /\ cv = NoConversion

Next ==
  \/ \E v \in WriteOn : OnSet(v)
  \/ \E v \in WriteBrightness : BrightnessSet(v)
  \/ \E v \in WriteColorTemperature : ColorTemperatureSet(v)
  \/ \E v \in WriteHue : HueSet(v)
  \/ \E v \in WriteSaturation : SaturationSet(v)
  \/ DebounceFire
  \/ \E i \in 1..MaxPush, outcome \in Outcomes : PushResponse(i, outcome)
  \/ \E i \in 1..MaxPush, ok \in BOOLEAN : ConnectBLEDone(i, ok)
  \/ \E i \in 1..MaxPush, ok \in BOOLEAN : DiscoverDone(i, ok)
  \/ \E i \in 1..MaxPush, ok \in BOOLEAN : CommandDone(i, ok)
  \/ \E i \in 1..MaxPush, outcome \in Outcomes : FallbackResponse(i, outcome)
  \/ Tick
  \/ FollowUpTick
  \/ \E j \in 1..MaxRefresh, ok \in BOOLEAN : SwitchbotBLEDone(j, ok)
  \/ \E j \in 1..MaxRefresh, sd \in Advertised \cup {NotSeen} : ScanDone(j, sd)
  \/ \E j \in 1..MaxRefresh, outcome \in Outcomes, ds \in DeviceStatus :
       StatusResponse(j, outcome, ds)
  \/ \E wc \in WebhookContext : Webhook(wc)
  \/ \E sd \in Advertised : PlatformBLE(sd)

Spec == Init /\ [][Next]_vars

\* ------------------------------------------- colour temperature round trip
\* the variables of the accessory, all but the conversion
accessoryVars ==
  <<cfg, LightBulb, context, hk, ceilingLightUpdateInProgress, debounceArmed,
    taking, followUps, push, refresh, nInputs, nFaults, lastWrite>>

\* pushColorTemperatureChanges builds its command for canonical mired cv.m
ConvertPush ==
  /\ cv.pc = "mired"
  /\ cv' = Conversion("kelvin", cv.m,
             StageCall("ct", [LightBulb EXCEPT !.ColorTemperature = cv.m]).arg, 0)
  /\ UNCHANGED accessoryVars

\* the device reports the Kelvin value it was sent, and a parser reads it
ConvertOpenAPI ==
  /\ cv.pc = "kelvin"
  /\ cv' = [cv EXCEPT !.pc = "api",
                      !.back = openAPIparseStatus(LightBulb,
                                 [power |-> "true", brightness |-> 50,
                                  colorTemperature |-> cv.kelvin]).ColorTemperature]
  /\ UNCHANGED accessoryVars

ConvertWebhook ==
  /\ cv.pc = "kelvin"
  /\ cv' = [cv EXCEPT !.pc = "webhook",
                      !.back = parseStatusWebhook(LightBulb,
                                 [powerState |-> "ON", brightness |-> 50,
                                  colorTemperature |-> cv.kelvin]).ColorTemperature]
  /\ UNCHANGED accessoryVars

ConvertBLE ==
  /\ cv.pc = "kelvin"
  /\ cv' = [cv EXCEPT !.pc = "ble",
                      !.back = BLEparseStatus(LightBulb,
                                 [model |-> CeilingLight, modelName |-> CeilingLightName,
                                  state |-> "true",
                                  color_temperature |-> cv.kelvin]).ColorTemperature]
  /\ UNCHANGED accessoryVars

InitConv ==
  /\ Constructed
  /\ cv \in {Conversion("mired", m, 0, 0) : m \in MinMired..MaxMired}

NextConv == ConvertPush \/ ConvertOpenAPI \/ ConvertWebhook \/ ConvertBLE

SpecConv == InitConv /\ [][NextConv]_vars

\* ================================================================ claims
\* a refreshStatus run is under way; a pushChanges run is under way, its
\* detached BLE chain included; a pushChanges run has not returned yet
RefreshRunning == \E j \in 1..MaxRefresh : refresh[j] # "idle"
PushRunning == \E i \in 1..MaxPush : push[i].pc # "idle"
Dispatching == {i \in 1..MaxPush : push[i].pc \in MainPcs}

\* C1: a tick of the refresh interval that fires while
\* ceilingLightUpdateInProgress is true starts no refresh (no transport call)
\* and changes neither the canonical nor the cached state, also when an
\* earlier tick has been let through.
C1_TickSkippedWhileUpdating ==
  [][(Tick /\ ceilingLightUpdateInProgress)
       => UNCHANGED <<refresh, LightBulb, context>>]_vars

\* C2: a refreshStatus run and a pushChanges run (up to the end of its last
\* transport call) are never under way at the same time.
C2_RefreshAndPushExclusive == ~(RefreshRunning /\ PushRunning)

\* C3: at most one pushChanges run is in flight at any time.
C3_OneDispatchInFlight == Cardinality(Dispatching) <= 1

\* a power command is issued in slot i by this step
PowerIssued(i) ==
  /\ push'[i].call # push[i].call
  /\ push'[i].call.cmd \in {"turnOn", "turnOff"}

\* C4: a burst of writes starts exactly one pushChanges run, at the end of the
\* debounce window (a run starts only by the debounce timer firing, which
\* disarms it), and a power command that is sent carries the power of the
\* last OnSet.
C4_OneDispatchWithLastValues ==
  [][/\ (\E i \in 1..MaxPush : push[i].pc = "idle" /\ push'[i].pc # "idle")
          => debounceArmed /\ ~debounceArmed'
     /\ \A i \in 1..MaxPush :
          (PowerIssued(i) /\ lastWrite' # "undefined")
            => push'[i].call.cmd = (IF lastWrite' = "true" THEN "turnOn" ELSE "turnOff")
    ]_vars

\* C5: when ceilingLightUpdateInProgress goes from true to false, the
\* pushChanges run that clears it has no transport call outstanding or still
\* to issue: the slot of that run is idle after the step.
C5_FlagClearedWhenComplete ==
  [][(ceilingLightUpdateInProgress /\ ~ceilingLightUpdateInProgress')
       => \A i \in 1..MaxPush : push'[i] # push[i] => push'[i].pc = "idle"]_vars

\* C6: each of the five setters, for every value and in every state, leaves
\* the canonical value of its characteristic at the value written and has
\* triggered doCeilingLightUpdate (the flag is set, the debounce timer runs).
C6_SettersStoreAndSchedule ==
  [][/\ \A v \in WriteOn : OnSet(v) => (LightBulb'.On = v /\ Scheduled)
     /\ \A v \in WriteBrightness :
          BrightnessSet(v) => (LightBulb'.Brightness = v /\ Scheduled)
     /\ \A v \in WriteColorTemperature :
          ColorTemperatureSet(v) => (LightBulb'.ColorTemperature = v /\ Scheduled)
     /\ \A v \in WriteHue : HueSet(v) => (LightBulb'.Hue = v /\ Scheduled)
     /\ \A v \in WriteSaturation :
          SaturationSet(v) => (LightBulb'.Saturation = v /\ Scheduled)
    ]_vars

\* the local operation of a refresh, or of a dispatch that still has a power
\* change to send, fails for good in this step
LocalRefreshFails(j) == SwitchbotBLEDone(j, FALSE) \/ ScanDone(j, NotSeen)
LocalPushFails(i) ==
  /\ LightBulb.On # context.On
  /\ \/ ConnectBLEDone(i, FALSE)
     \/ DiscoverDone(i, FALSE)
     \/ (push[i].tries = MaxRetry /\ CommandDone(i, FALSE))

\* C7: in dual mode with a token, a refresh or dispatch whose local operation
\* fails for good goes on to exactly one remote request, and the return of
\* that request ends the operation; without a token, or in local-only mode,
\* the operation ends without a remote request.
C7_LocalFailureEscalatesOnce ==
  [][/\ \A j \in 1..MaxRefresh :
          /\ LocalRefreshFails(j)
               => refresh'[j] = (IF BLERefreshConnection THEN "api" ELSE "idle")
          /\ (\E o \in Outcomes, ds \in DeviceStatus : StatusResponse(j, o, ds))
               => refresh'[j] = "idle"
     /\ \A i \in 1..MaxPush :
          /\ LocalPushFails(i)
               => IF BLEPushConnection
                  THEN push'[i].pc \in {"fb_main", "fb_chain"} /\ push'[i].call.via = "api"
                  ELSE push'[i].pc = "idle"
          /\ (\E o \in Outcomes : FallbackResponse(i, o)) => push'[i].pc = "idle"
    ]_vars

\* a step that ingests a broadcast payload
BLEIngestion ==
  \/ \E sd \in Advertised : PlatformBLE(sd)
  \/ \E j \in 1..MaxRefresh, sd \in Advertised \cup {NotSeen} :
       ScanDone(j, sd) /\ ServiceDataAccepted(sd)

\* C8: the ingestion of a broadcast payload, from the scan of a refresh or
\* from the platform BLE handler, leaves canonical hue, saturation and
\* brightness as they were.
C8_BLEIngestionKeepsColour ==
  [][BLEIngestion
       => /\ LightBulb'.Hue = LightBulb.Hue
          /\ LightBulb'.Saturation = LightBulb.Saturation
          /\ LightBulb'.Brightness = LightBulb.Brightness]_vars

\* local-only accessory: a written brightness has survived the broadcast
\* ingestion that published it and that brought the colour temperature
C8_Witness ==
  /\ cfg.connectionType = "BLE"
  /\ LightBulb.Brightness \in WriteBrightness
  /\ context.Brightness = LightBulb.Brightness
  /\ LightBulb.ColorTemperature \in {KelvinToMired(k) : k \in StatusKelvin}
  /\ LightBulb.ColorTemperature # MinMired

\* a step that ingests a status and publishes it
Ingestion ==
  \/ BLEIngestion
  \/ \E wc \in WebhookContext : Webhook(wc)
  \/ \E j \in 1..MaxRefresh, ds \in DeviceStatus : StatusResponse(j, "ok", ds)

C10_RoundTrip ==
  cv.pc \in {"api", "webhook", "ble"}
    => /\ cv.back - cv.m \in (0 - 1)..1
       /\ cv.back \in MinMired..MaxMired

\* C11: the parameter of the colour temperature command the dispatch sends
\* for canonical mired m is the Kelvin value round(1000000 / m), for every m
\* in [140, 500].
C11_KelvinSent ==
  cv.pc \in {"kelvin", "api", "webhook", "ble"} => cv.kelvin = RoundDiv(Million, cv.m)

\* C12: when a dispatch ends with the success of its last command, the cache
\* equals the canonical state: in every characteristic after a remote command,
\* in the power, the one characteristic the local transport carries, after a
\* local command.
C12_SuccessfulDispatchCaches ==
  [][\A i \in 1..MaxPush :
       /\ ((PushResponse(i, "ok") \/ FallbackResponse(i, "ok")) /\ push'[i].pc = "idle")
            => \A c \in Chars : context'[c] = LightBulb'[c]
       /\ CommandDone(i, TRUE) => context'.On = LightBulb'.On
    ]_vars

\* the device is configured offline and no transport is selectable
OfflineConfig == cfg.offline /\ RefreshEntry = "offline"

Payload(power, brightness, kelvin) ==
  [pc |-> "payload", power |-> power, brightness |-> brightness, kelvin |-> kelvin]
Payloads ==
  {Payload(p, b, k) : p \in StatusPower, b \in {Undef, 0, 50, 150},
                      k \in {Undef, 0, 1000, 2700, 10000}}

ParseOpenAPI ==
  /\ cv.pc = "payload"
  /\ LightBulb' = openAPIparseStatus(LightBulb,
                    [power |-> cv.power, brightness |-> cv.brightness,
                     colorTemperature |-> cv.kelvin])
  /\ cv' = [cv EXCEPT !.pc = "api"]
  /\ UNCHANGED <<cfg, context, hk, ceilingLightUpdateInProgress, debounceArmed,
                 taking, followUps, push, refresh, nInputs, nFaults, lastWrite>>

ParseWebhook ==
  /\ cv.pc = "payload"
  /\ LightBulb' = parseStatusWebhook(LightBulb,
                    [powerState |-> IF cv.power = "true" THEN "ON" ELSE "OFF",
                     brightness |-> cv.brightness, colorTemperature |-> cv.kelvin])
  /\ cv' = [cv EXCEPT !.pc = "webhook"]
  /\ UNCHANGED <<cfg, context, hk, ceilingLightUpdateInProgress, debounceArmed,
                 taking, followUps, push, refresh, nInputs, nFaults, lastWrite>>

ParseBLE ==
  /\ cv.pc = "payload"
  /\ LightBulb' = BLEparseStatus(LightBulb,
                    [model |-> CeilingLight, modelName |-> CeilingLightName,
                     state |-> cv.power, color_temperature |-> cv.kelvin])
  /\ cv' = [cv EXCEPT !.pc = "ble"]
  /\ UNCHANGED <<cfg, context, hk, ceilingLightUpdateInProgress, debounceArmed,
                 taking, followUps, push, refresh, nInputs, nFaults, lastWrite>>

InitParse == Constructed /\ cv \in Payloads

NextParse == ParseOpenAPI \/ ParseWebhook \/ ParseBLE

SpecParse == InitParse /\ [][NextParse]_vars

\* C14: every numeric canonical field is inside the range of its
\* characteristic, whatever the payloads ingested: brightness in [0, 100],
\* hue in [0, 360], saturation in [0, 100], colour temperature in [140, 500].
C14_CanonicalInRange ==
  /\ LightBulb.Brightness \in 0..100
  /\ LightBulb.Hue \in 0..360
  /\ LightBulb.Saturation \in 0..100
  /\ LightBulb.ColorTemperature \in MinMired..MaxMired

\* C15: a refresh whose status request throws or returns a status code that
\* is no success, or whose BLE object is not to be had, leaves the canonical
\* state as it was; the run ends, or goes on to its remote request, and the
\* refresh interval is left as it was, so that a later tick runs a refresh.
C15_FailedRefreshKeepsCanonical ==
  [][\A j \in 1..MaxRefresh :
       /\ (\E ds \in DeviceStatus :
             StatusResponse(j, "bad", ds) \/ StatusResponse(j, "throw", ds))
            => /\ LightBulb' = LightBulb
               /\ refresh'[j] = "idle"
               /\ UNCHANGED <<taking, ceilingLightUpdateInProgress>>
       /\ SwitchbotBLEDone(j, FALSE)
            => /\ LightBulb' = LightBulb
               /\ refresh'[j] \in {"idle", "api"}
               /\ UNCHANGED <<taking, ceilingLightUpdateInProgress>>
    ]_vars

\* the status request of the constructor's refresh has thrown, nothing was
\* written, and the refresh of a tick is awaiting its status
C15_Witness ==
  /\ hk.On = "error"
  /\ nFaults = 1
  /\ nInputs = 1
  /\ taking
  /\ refresh[1] = "api"
  /\ LightBulb = InitialLightBulb(Fresh)

\* a step that is a user write
UserWrite ==
  \/ \E v \in WriteOn : OnSet(v)
  \/ \E v \in WriteBrightness : BrightnessSet(v)
  \/ \E v \in WriteColorTemperature : ColorTemperatureSet(v)
  \/ \E v \in WriteHue : HueSet(v)
  \/ \E v \in WriteSaturation : SaturationSet(v)

\* C16: the canonical state is changed only by a user write and by the
\* ingestion of a status: no step of a dispatch changes a canonical field.
C16_CanonicalChangedByWriteOrIngestion ==
  [][LightBulb' # LightBulb => (UserWrite \/ Ingestion)]_vars

\* C17: a command of a dispatch that fails leaves the cache as it was, and the
\* cached power, which only the power command stands for, is still at its old
\* value after a later command of the dispatch (brightness, colour
\* temperature or colour) has succeeded.
C17_FailedCommandKeepsCache ==
  [][\A i \in 1..MaxPush :
       /\ (PushResponse(i, "bad") \/ PushResponse(i, "throw")) => context' = context
       /\ (PushResponse(i, "ok") /\ push[i].pc # "power") => context'.On = context.On
    ]_vars

\* the commands of the remote dispatch in their order, and what each is for
RemotePcs == {"power", "brightness", "ct", "color"}
Rank(pc) ==
  CASE pc = "power" -> 1 [] pc = "brightness" -> 2 [] pc = "ct" -> 3
    [] pc = "color" -> 4 [] OTHER -> 0
CommandOf(pc, lb) ==
  CASE pc = "power" -> IF Truthy(lb.On) THEN "turnOn" ELSE "turnOff"
    [] pc = "brightness" -> "setBrightness"
    [] pc = "ct" -> "setColorTemperature"
    [] OTHER -> "setColor"
Differs(pc, lb, ctx) ==
  CASE pc = "power" -> lb.On # ctx.On
    [] pc = "brightness" -> lb.Brightness # ctx.Brightness
    [] pc = "ct" -> lb.ColorTemperature # ctx.ColorTemperature
    [] OTHER -> lb.Hue # ctx.Hue \/ lb.Saturation # ctx.Saturation

\* C18: the commands of one dispatch are sent in the order power, brightness,
\* colour temperature, colour; a command is sent only when the canonical
\* value it is for differs from the cached one; brightness, colour
\* temperature and colour are sent only when the canonical power is on at
\* the moment the dispatch is through with the power, before the first of
\* them.
C18_CommandOrder ==
  [][\A i \in 1..MaxPush : \A pc \in RemotePcs :
       (push'[i].pc = pc /\ push[i].pc # pc)
         => /\ push[i].pc \in RemotePcs \cup {"idle"}
            /\ Rank(push[i].pc) < Rank(pc)
            /\ Differs(pc, LightBulb', context')
            /\ (pc # "power" /\ push[i].pc \in {"idle", "power"}) => Truthy(LightBulb.On)
            /\ push'[i].call.cmd = CommandOf(pc, LightBulb)
    ]_vars

\* the power command of a dispatch has failed and the dispatch has gone on to
\* its brightness command
C18_Witness ==
  \E i \in 1..MaxPush :
    /\ push[i].pc = "brightness"
    /\ push[i].call.cmd = "setBrightness"
    /\ nFaults = 1
    /\ context.On # LightBulb.On
    /\ Truthy(LightBulb.On)

\* ---------------------------------------------------------------- C19
\* a colour temperature the user has written that no publication has cached
WrittenColorTemperature ==
  /\ LightBulb.ColorTemperature \in WriteColorTemperature
  /\ LightBulb.ColorTemperature # context.ColorTemperature

\* pushChanges returns: the step that schedules the follow-up refresh
DispatchReturns == followUps' = followUps + 1

\* C19: an accepted ColorTemperatureSet publishes the hue and the saturation
\* derived from the requested mired value to the host in the setter itself,
\* before any transport call of the resulting dispatch, and leaves the canonical
\* hue and saturation alone, so that the dispatch has no setColor to send; and
\* the dispatch that follows, on a transport that is configured and with the
\* power on, has sent setColorTemperature by the time it returns.
C19_ColorTemperatureSetShadowsAndSends ==
  [][/\ \A v \in WriteColorTemperature :
          (ColorTemperatureSet(v) /\ ColorTemperatureAccepted(v)) =>
             /\ hk'.Hue = m2hs(v).h
             /\ hk'.Saturation = m2hs(v).s
             /\ push' = push
             /\ debounceArmed'
             /\ LightBulb'.Hue = LightBulb.Hue
             /\ LightBulb'.Saturation = LightBulb.Saturation
     /\ ( /\ DispatchReturns
          /\ WrittenColorTemperature
          /\ Truthy(LightBulb.On)
          /\ RefreshEntry \in {"connect", "api"} ) =>
             \E i \in 1..MaxPush :
               /\ push'[i] # push[i]
               /\ push[i].pc \in {"ct", "color"} ]_vars

\* the setter part of C19 alone
C19_SetterShadows ==
  [][\A v \in WriteColorTemperature :
          (ColorTemperatureSet(v) /\ ColorTemperatureAccepted(v)) =>
             /\ hk'.Hue = m2hs(v).h
             /\ hk'.Saturation = m2hs(v).s
             /\ push' = push
             /\ debounceArmed'
             /\ LightBulb'.Hue = LightBulb.Hue
             /\ LightBulb'.Saturation = LightBulb.Saturation ]_vars

\* ---------------------------------------------------------------- C20
\* HueSet or SaturationSet has run: no parser and no other setter writes the
\* canonical hue or saturation
ColourWritten ==
  \/ LightBulb.Hue \in WriteHue
  \/ LightBulb.Saturation \in WriteSaturation

\* the accessory with a user who writes no colour temperature once a hue or a
\* saturation has been written: every behaviour is a behaviour of Spec
NextHue ==
  \/ \E v \in WriteOn : OnSet(v)
  \/ \E v \in WriteBrightness : BrightnessSet(v)
  \/ ~ColourWritten /\ \E v \in WriteColorTemperature : ColorTemperatureSet(v)
  \/ \E v \in WriteHue : HueSet(v)
  \/ \E v \in WriteSaturation : SaturationSet(v)
  \/ DebounceFire
  \/ \E i \in 1..MaxPush, outcome \in Outcomes : PushResponse(i, outcome)
  \/ \E i \in 1..MaxPush, ok \in BOOLEAN : ConnectBLEDone(i, ok)
  \/ \E i \in 1..MaxPush, ok \in BOOLEAN : DiscoverDone(i, ok)
  \/ \E i \in 1..MaxPush, ok \in BOOLEAN : CommandDone(i, ok)
  \/ \E i \in 1..MaxPush, outcome \in Outcomes : FallbackResponse(i, outcome)
  \/ Tick
  \/ FollowUpTick
  \/ \E j \in 1..MaxRefresh, ok \in BOOLEAN : SwitchbotBLEDone(j, ok)
  \/ \E j \in 1..MaxRefresh, sd \in Advertised \cup {NotSeen} : ScanDone(j, sd)
  \/ \E j \in 1..MaxRefresh, outcome \in Outcomes, ds \in DeviceStatus :
       StatusResponse(j, outcome, ds)
  \/ \E wc \in WebhookContext : Webhook(wc)
  \/ \E sd \in Advertised : PlatformBLE(sd)

SpecHue == Init /\ [][NextHue]_vars

\* C20: HueSet and SaturationSet leave 140 mired on the host, and as long as no
\* colour temperature is written after them (SpecHue) the publication that
\* follows a successful command leaves the 140 there.
C20_ColourWriteForcesMinMired ==
  [][/\ \A v \in WriteHue : HueSet(v) => hk'.ColorTemperature = MinMired
     /\ \A v \in WriteSaturation : SaturationSet(v) => hk'.ColorTemperature = MinMired
     /\ \A i \in 1..MaxPush :
          ( /\ PushResponse(i, "ok") \/ FallbackResponse(i, "ok")
            /\ ColourWritten
            /\ hk.ColorTemperature = MinMired ) =>
               hk'.ColorTemperature = MinMired ]_vars

\* ------------------------------------------------------------- fairness
\* the steps of the accessory that need no input from the outside: timers that
\* fire and transport calls that return
Returns ==
  \/ DebounceFire
  \/ \E i \in 1..MaxPush, outcome \in Outcomes : PushResponse(i, outcome)
  \/ \E i \in 1..MaxPush, ok \in BOOLEAN : ConnectBLEDone(i, ok)
  \/ \E i \in 1..MaxPush, ok \in BOOLEAN : DiscoverDone(i, ok)
  \/ \E i \in 1..MaxPush, ok \in BOOLEAN : CommandDone(i, ok)
  \/ \E i \in 1..MaxPush, outcome \in Outcomes : FallbackResponse(i, outcome)
  \/ FollowUpTick
  \/ \E j \in 1..MaxRefresh, ok \in BOOLEAN : SwitchbotBLEDone(j, ok)
  \/ \E j \in 1..MaxRefresh, sd \in Advertised \cup {NotSeen} : ScanDone(j, sd)
  \/ \E j \in 1..MaxRefresh, outcome \in Outcomes, ds \in DeviceStatus :
       StatusResponse(j, outcome, ds)

\* the accessory with a user who writes the power and the brightness, the
\* refresh interval and the webhook: every behaviour is a behaviour of Spec
NextLive ==
  \/ \E v \in WriteOn : OnSet(v)
  \/ \E v \in WriteBrightness : BrightnessSet(v)
  \/ Tick
  \/ \E wc \in WebhookContext : Webhook(wc)
  \/ Returns

\* every timer fires and every transport call returns or fails
SpecLive == Init /\ [][NextLive]_vars /\ WF_vars(Returns)

\* ---------------------------------------------------------------- C21
\* a pushChanges run returns in this step: a run that awaited a transport call
\* goes on no further, or the run the debounce timer starts awaits none
PushChangesReturns ==
  \/ \E i \in 1..MaxPush : push[i].pc \in MainPcs /\ push'[i].pc \notin MainPcs
  \/ DebounceFire /\ \A i \in 1..MaxPush : push'[i].pc \in MainPcs <=> push[i].pc \in MainPcs

\* a refreshStatus run starts awaiting a transport call in this step
RefreshStarts == \E j \in 1..MaxRefresh : refresh[j] = "idle" /\ refresh'[j] # "idle"

\* C21: every pushChanges run that returns, whatever its commands did and also
\* when no transport was selectable, arms one follow-up timer; a timer is
\* armed by nothing else; a timer goes by invoking refreshStatus once with the
\* flag clear, and a refresh is started by that timer or by the refresh
\* interval only; and every armed timer eventually fires.
C21_OneFollowUpPerDispatch ==
  /\ [][/\ PushChangesReturns => followUps' = followUps + 1
        /\ followUps' > followUps => PushChangesReturns
        /\ followUps' < followUps =>
             FollowUpTick /\ followUps' = followUps - 1 /\ ~ceilingLightUpdateInProgress
        /\ RefreshStarts => (FollowUpTick \/ Tick) ]_vars
  /\ (followUps > 0) ~> (followUps = 0)

\* the safety half of C21, for the whole of Spec
C21_FollowUpSafety ==
  [][/\ PushChangesReturns => followUps' = followUps + 1
     /\ followUps' > followUps => PushChangesReturns
     /\ followUps' < followUps =>
          FollowUpTick /\ followUps' = followUps - 1 /\ ~ceilingLightUpdateInProgress
     /\ RefreshStarts => (FollowUpTick \/ Tick) ]_vars

\* a dispatch of one power write has succeeded and returned, and its follow-up
\* refresh is under way
C21_Witness ==
  /\ nInputs = 1
  /\ lastWrite # "undefined"
  /\ context.On = lastWrite
  /\ \A i \in 1..MaxPush : push[i] = Idle
  /\ followUps = 0
  /\ refresh[1] # "idle"

\* ---------------------------------------------------------------- C22
\* where a pushChanges run awaits a remote request, and the kind of command
\* the request carries: 1 power, 2 brightness, 3 colour temperature, 4 colour
RemoteRequestPcs == {"power", "fb_main", "fb_chain", "brightness", "ct", "color"}
RemoteKind(pc) ==
  CASE pc \in {"power", "fb_main", "fb_chain"} -> 1
    [] pc = "brightness" -> 2
    [] pc = "ct" -> 3
    [] pc = "color" -> 4
    [] OTHER -> 0

\* C22: a remote request that throws or returns a non-success status code is
\* not sent again by the operation it belongs to: a refresh that has had its
\* answer is over, and a dispatch goes from a remote request only to the
\* request of a later kind of command or to its end, so that it sends at most
\* one remote request of each kind.
C22_RemoteFailureNotRetried ==
  [][/\ \A j \in 1..MaxRefresh, outcome \in Outcomes, ds \in DeviceStatus :
          StatusResponse(j, outcome, ds) => refresh'[j] = "idle"
     /\ \A j \in 1..MaxRefresh :
          (refresh'[j] = "api" /\ refresh[j] # "api") => refresh[j] \in {"idle", "connect", "scan"}
     /\ \A i \in 1..MaxPush, outcome \in Outcomes :
          (PushResponse(i, outcome) \/ FallbackResponse(i, outcome)) =>
             /\ push'[i].pc \in RemoteRequestPcs \cup {"idle"}
             /\ push'[i].pc # "idle" => RemoteKind(push'[i].pc) > RemoteKind(push[i].pc)
     /\ \A i \in 1..MaxPush :
          (push'[i].pc \in RemoteRequestPcs /\ push'[i] # push[i]) =>
             RemoteKind(push'[i].pc) > RemoteKind(push[i].pc) ]_vars

\* the turnOff of a dispatch has thrown and the dispatch has returned with the
\* power still to send
C22_Witness ==
  /\ cfg.connectionType = "OpenAPI"
  /\ nInputs = 1
  /\ lastWrite = "false"
  /\ context.On = "undefined"
  /\ hk.On = "error"
  /\ refresh[1] = "api"
  /\ \A i \in 1..MaxPush : push[i] = Idle
  /\ followUps = 1

\* ---------------------------------------------------------------- C23
\* the remote mode with the cloud service disabled
CloudDisabled == cfg.connectionType = "OpenAPI" /\ ~cfg.enableCloudService

\* C23: in remote mode with the cloud service disabled no refreshStatus and no
\* pushChanges ever awaits a transport call, neither of them changes the
\* canonical state, the cache or the host, and a pushChanges returns at once:
\* the flag is cleared and the follow-up timer armed.
C23_CloudDisabledDoesNothing ==
  [][CloudDisabled =>
       /\ \A i \in 1..MaxPush : push'[i] = Idle
       /\ \A j \in 1..MaxRefresh : refresh'[j] = "idle"
       /\ (Tick \/ FollowUpTick \/ DebounceFire) =>
             UNCHANGED <<LightBulb, context, hk>>
       /\ DebounceFire =>
             ~ceilingLightUpdateInProgress' /\ followUps' = followUps + 1 ]_vars

\* with the cloud service disabled a refresh tick has been let through and the
\* dispatch of a power write has returned, the power still uncached
C23_Witness ==
  /\ CloudDisabled
  /\ taking
  /\ lastWrite = "true"
  /\ LightBulb.On = "true"
  /\ context.On = "undefined"
  /\ ~debounceArmed
  /\ ~ceilingLightUpdateInProgress
  /\ followUps = 1

\* ---------------------------------------------------------------- C24
\* a remote request is issued in this step by refresh j, by push slot i
RemoteStatusIssued(j) == refresh'[j] = "api" /\ refresh[j] # "api"
RemoteCommandIssued(i) == push'[i].call.via = "api" /\ push'[i].call # push[i].call

\* C24: in local-only mode no remote request is ever issued; in dual mode,
\* whatever the cloud-service flag, every refresh starts with the local
\* transport and every dispatch that has a power to send starts with the
\* local transport, and a remote request is issued only by an operation whose
\* local attempt has failed.
C24_TransportChoice ==
  [][/\ cfg.connectionType = "BLE" =>
          /\ \A j \in 1..MaxRefresh : ~RemoteStatusIssued(j)
          /\ \A i \in 1..MaxPush : ~RemoteCommandIssued(i)
     /\ cfg.connectionType \in {"BLE", "BLE/OpenAPI"} =>
          /\ ((Tick /\ TickPasses) \/ FollowUpTick) =>
                \E j \in 1..MaxRefresh : refresh[j] = "idle" /\ refresh'[j] = "connect"
          /\ (DebounceFire /\ LightBulb.On # context.On) =>
                \E i \in 1..MaxPush : push[i].pc = "idle" /\ push'[i].pc = "connect"
          /\ \A j \in 1..MaxRefresh :
                RemoteStatusIssued(j) => refresh[j] \in {"connect", "scan"}
          /\ \A i \in 1..MaxPush :
                RemoteCommandIssued(i) => push[i].pc \in {"connect", "discover", "cmd"} ]_vars

\* C24 without the dual mode whose cloud service is disabled
C24_TransportChoiceCloudEnabled ==
  [][/\ cfg.connectionType = "BLE" =>
          /\ \A j \in 1..MaxRefresh : ~RemoteStatusIssued(j)
          /\ \A i \in 1..MaxPush : ~RemoteCommandIssued(i)
     /\ (cfg.connectionType \in {"BLE", "BLE/OpenAPI"} /\ cfg.enableCloudService) =>
          /\ ((Tick /\ TickPasses) \/ FollowUpTick) =>
                \E j \in 1..MaxRefresh : refresh[j] = "idle" /\ refresh'[j] = "connect"
          /\ (DebounceFire /\ LightBulb.On # context.On) =>
                \E i \in 1..MaxPush : push[i].pc = "idle" /\ push'[i].pc = "connect"
          /\ \A j \in 1..MaxRefresh :
                RemoteStatusIssued(j) => refresh[j] \in {"connect", "scan"}
          /\ \A i \in 1..MaxPush :
                RemoteCommandIssued(i) => push[i].pc \in {"connect", "discover", "cmd"} ]_vars

\* ---------------------------------------------------------------- C25
\* C25: a polled response or a webhook payload that carries no brightness
\* leaves the canonical brightness as the constructor set it, one that carries
\* no colour temperature leaves the canonical colour temperature, and neither
\* adapter changes the hue or the saturation.
C25_AbsentFieldsUntouched ==
  cv.pc \in {"api", "webhook"} =>
     /\ cv.brightness = Undef => LightBulb.Brightness = InitialLightBulb(Fresh).Brightness
     /\ cv.kelvin = Undef =>
          LightBulb.ColorTemperature = InitialLightBulb(Fresh).ColorTemperature
     /\ LightBulb.Hue = InitialLightBulb(Fresh).Hue
     /\ LightBulb.Saturation = InitialLightBulb(Fresh).Saturation

\* the hue and saturation part of C25 alone
C25_ColourUntouched ==
  cv.pc \in {"api", "webhook"} =>
     /\ LightBulb.Hue = InitialLightBulb(Fresh).Hue
     /\ LightBulb.Saturation = InitialLightBulb(Fresh).Saturation

\* ---------------------------------------------------------------- C26
\* C26: the payload the scan of a refresh returns is parsed and published
\* only when its model is the ceiling light's or the ceiling light pro's; with
\* any other model the canonical state and the cache stay as they are and the
\* refresh takes the failure path, the remote request in dual mode with a
\* token and its end otherwise.
C26_ScanFilteredByModel ==
  [][\A j \in 1..MaxRefresh, sd \in Advertised \cup {NotSeen} :
       ScanDone(j, sd) =>
          IF sd.model \in {CeilingLight, CeilingLightPro}
          THEN /\ LightBulb' = BLEparseStatus(LightBulb, sd)
               /\ refresh'[j] = "idle"
          ELSE /\ UNCHANGED <<LightBulb, context>>
               /\ refresh'[j] = (IF BLERefreshConnection THEN "api" ELSE "idle") ]_vars

\* ---------------------------------------------------------------- C27
\* C27: ceilingLightUpdateInProgress, once true, becomes false again, whatever
\* the commands of the dispatch did, and from false it becomes true by a user
\* write only.
C27_FlagEventuallyClear ==
  /\ ceilingLightUpdateInProgress ~> ~ceilingLightUpdateInProgress
  /\ [][(~ceilingLightUpdateInProgress /\ ceilingLightUpdateInProgress') => UserWrite]_vars

\* the safety half of C27, for the whole of Spec
C27_FlagSetByWriteOnly ==
  [][(~ceilingLightUpdateInProgress /\ ceilingLightUpdateInProgress') => UserWrite]_vars

\* a burst of a power and a brightness write has been dispatched, a command of
\* the dispatch has failed, and the flag is clear
C27_Witness ==
  /\ cfg.connectionType = "OpenAPI"
  /\ refresh[1] = "api"
  /\ nInputs = 2
  /\ lastWrite = "true"
  /\ LightBulb.Brightness \in WriteBrightness
  /\ nFaults = 1
  /\ followUps = 1
  /\ \A i \in 1..MaxPush : push[i] = Idle
  /\ ~debounceArmed
  /\ ~ceilingLightUpdateInProgress

\* ---------------------------------------------------------------- C28
\* C28: while the debounce timer of a write is running, or a pushChanges run
\* has not returned yet, ceilingLightUpdateInProgress is true.
C28_PendingWriteHoldsFlag ==
  (debounceArmed \/ Dispatching # {}) => ceilingLightUpdateInProgress

\* ---------------------------------------------------------------- C29
\* the accessory with a user who writes the power once and nothing else, and
\* with transports that do not fail; the refresh interval, the webhook and the
\* broadcast events are as in Spec: every behaviour is a behaviour of Spec
NextOneWrite ==
  \/ nInputs = 0 /\ \E v \in WriteOn : OnSet(v)
  \/ Tick
  \/ \E wc \in WebhookContext : Webhook(wc)
  \/ \E sd \in Advertised : PlatformBLE(sd)
  \/ Returns /\ nFaults' = nFaults

SpecOneWrite ==
  Init /\ [][NextOneWrite]_vars /\ WF_vars(Returns /\ nFaults' = nFaults)

\* OnSet(v) has just been called with a power that is not the cached one, on an
\* accessory that has a transport: its debounce timer runs and no status has
\* been ingested since
PowerWritten(v) ==
  /\ RefreshEntry \in {"connect", "api"}
  /\ debounceArmed
  /\ lastWrite = v
  /\ context.On # v

\* a turnOn / turnOff that carries v is on its way to the device
PowerSent(v) ==
  \E i \in 1..MaxPush :
    push[i].call.cmd = (IF v = "true" THEN "turnOn" ELSE "turnOff")

\* C29: a power the user has written, different from the cached one, is
\* eventually sent to the device when no other write follows and the transport
\* does not fail, whatever is ingested before the debounce window closes.
C29_PowerWriteNotLost ==
  \A v \in WriteOn : PowerWritten(v) ~> PowerSent(v)

====
